---- MODULE Spec2Model ----
(***************************************************************************)
(* Multi-agent conversation orchestration of TelegramCommunicationAgent    *)
(* (src/telegram_agent.py): the peer pipeline receive_message, the channel *)
(* handler handle_message, the conversation-starter loop, the retrying     *)
(* transport calls and the peer registry.                                  *)
(*                                                                         *)
(* Every agent runs on one asyncio event loop.  A coroutine runs without   *)
(* interruption from one suspension point (an await that really yields:    *)
(* asyncio.sleep, the completion call, a network call) to the next, and a  *)
(* direct "await peer.receive_message(...)" runs the callee inside the     *)
(* caller's step until the callee itself suspends.  A task is a stack of   *)
(* frames; one action resumes the top frame and runs the task to its next  *)
(* suspension point.  Timestamps (last_activity, last_interaction) and the *)
(* prompt text have no effect on control flow and are left out.            *)
(***************************************************************************)
EXTENDS Integers, Sequences, FiniteSets, TLC

(***************************************************************************)
(* Text.  Names and message texts are strings; TextChars gives the         *)
(* characters of each string the model uses, CodePoint the code point of   *)
(* each character (Python compares and hashes str by code point).          *)
(***************************************************************************)
TextChars ==
       "Alpha" :> <<"A","l","p","h","a">> @@
       "Beta" :> <<"B","e","t","a">> @@
       "Gamma" :> <<"G","a","m","m","a">> @@
       "User" :> <<"U","s","e","r">> @@
       "BTC" :> <<"B","T","C">> @@
       "ETH" :> <<"E","T","H">> @@
       "USDT" :> <<"U","S","D","T">> @@
       "BNB" :> <<"B","N","B">> @@
       "Hello" :> <<"H","e","l","l","o">> @@
       "BTC is pumping" :> <<"B","T","C"," ","i","s"," ","p","u","m","p","i","n","g">> @@
       "btc dip" :> <<"b","t","c"," ","d","i","p">> @@
         "I'm seeing some unusual activity in BTC. Should we discuss potential strategies?" :> <<"I",
         "'","m"," ","s","e","e","i","n","g"," ","s","o","m","e"," ","u","n","u","s","u",
         "a","l"," ","a","c","t","i","v","i","t","y"," ","i","n"," ","B","T","C","."," ",
         "S","h","o","u","l","d"," ","w","e"," ","d","i","s","c","u","s","s"," ","p","o",
         "t","e","n","t","i","a","l"," ","s","t","r","a","t","e","g","i","e","s","?">> @@
         "I'm seeing some unusual activity in ETH. Should we discuss potential strategies?" :> <<"I",
         "'","m"," ","s","e","e","i","n","g"," ","s","o","m","e"," ","u","n","u","s","u",
         "a","l"," ","a","c","t","i","v","i","t","y"," ","i","n"," ","E","T","H","."," ",
         "S","h","o","u","l","d"," ","w","e"," ","d","i","s","c","u","s","s"," ","p","o",
         "t","e","n","t","i","a","l"," ","s","t","r","a","t","e","g","i","e","s","?">> @@
         "I'm seeing some unusual activity in USDT. Should we discuss potential strategies?" :> <<"I",
         "'","m"," ","s","e","e","i","n","g"," ","s","o","m","e"," ","u","n","u","s","u",
         "a","l"," ","a","c","t","i","v","i","t","y"," ","i","n"," ","U","S","D","T",".",
         " ","S","h","o","u","l","d"," ","w","e"," ","d","i","s","c","u","s","s"," ","p",
         "o","t","e","n","t","i","a","l"," ","s","t","r","a","t","e","g","i","e","s","?">> @@
         "I'm seeing some unusual activity in BNB. Should we discuss potential strategies?" :> <<"I",
         "'","m"," ","s","e","e","i","n","g"," ","s","o","m","e"," ","u","n","u","s","u",
         "a","l"," ","a","c","t","i","v","i","t","y"," ","i","n"," ","B","N","B","."," ",
         "S","h","o","u","l","d"," ","w","e"," ","d","i","s","c","u","s","s"," ","p","o",
         "t","e","n","t","i","a","l"," ","s","t","r","a","t","e","g","i","e","s","?">>

TemplatePre ==
    <<"I","'","m"," ","s","e","e","i","n","g"," ","s","o","m","e"," ","u","n","u","s","u",
      "a","l"," ","a","c","t","i","v","i","t","y"," ","i","n"," ">>

TemplatePost ==
    <<"."," ","S","h","o","u","l","d"," ","w","e"," ","d","i","s","c","u","s","s"," ","p",
      "o","t","e","n","t","i","a","l"," ","s","t","r","a","t","e","g","i","e","s","?">>

CodePoint ==
    " " :> 32 @@ "'" :> 39 @@ "." :> 46 @@ ":" :> 58 @@ "?" :> 63 @@ "A" :> 65 @@
      "B" :> 66 @@ "C" :> 67 @@ "D" :> 68 @@ "E" :> 69 @@ "G" :> 71 @@ "H" :> 72 @@
      "I" :> 73 @@ "N" :> 78 @@ "S" :> 83 @@ "T" :> 84 @@ "U" :> 85 @@ "a" :> 97 @@
      "b" :> 98 @@ "c" :> 99 @@ "d" :> 100 @@ "e" :> 101 @@ "g" :> 103 @@ "h" :> 104 @@
      "i" :> 105 @@ "l" :> 108 @@ "m" :> 109 @@ "n" :> 110 @@ "o" :> 111 @@ "p" :> 112 @@
      "r" :> 114 @@ "s" :> 115 @@ "t" :> 116 @@ "u" :> 117 @@ "v" :> 118 @@ "w" :> 119 @@
      "y" :> 121

Chars(s) == TextChars[s]

(* str + str *)
Concat(s, t) == s \o t

(* "needle in hay" for str: needle occurs as a contiguous run of characters *)
Contains(hay, needle) ==
    \E i \in 0..(Len(hay) - Len(needle)) :
        \A j \in 1..Len(needle) : hay[i + j] = needle[j]

(* str < str: the first differing code point decides, a proper prefix is smaller *)
StrLess(s, t) ==
    \E i \in 1..(Len(t)) :
        /\ \A j \in 1..(i - 1) : j <= Len(s) /\ s[j] = t[j]
        /\ \/ i = Len(s) + 1
           \/ i <= Len(s) /\ CodePoint[s[i]] < CodePoint[t[i]]

(***************************************************************************)
(* Bounds of the model.                                                    *)
(***************************************************************************)
\* width in bits of the modelled hash value
HashBits == 14
\* the hash seeds of a process are 0..MaxSeed
MaxSeed == 0
\* receive_message calls made from outside the agents
MaxCalls == 2
\* completions the completion service returns
MaxReplies == 2
\* text messages users post in the group
MaxUpdates == 1
\* the largest conversation_count the model follows
MaxCount == 2
\* messages from outside that set off a cascade of calls between the agents
MaxCascades == 1

(***************************************************************************)
(* The agents of one process, the senders a message can carry, the texts   *)
(* callers and the completion service produce.                             *)
(***************************************************************************)
Agents == {"Alpha", "Beta", "Gamma"}
Names == Agents \cup {"User"}
GroupChatId == "G"
CallTexts == {"Hello", "BTC is pumping"}
ReplyTexts == {"Hello", "btc dip"}
StarterAssets == {"BTC", "ETH", "USDT", "BNB"}

(* template.format(asset=asset, ...) for the template whose only slot is {asset} *)
Format(asset) == Concat(Concat(TemplatePre, Chars(asset)), TemplatePost)

(* the string with the given characters *)
Str(chars) == CHOOSE s \in DOMAIN TextChars : TextChars[s] = chars

StarterTexts == {Str(Format(asset)) : asset \in StarterAssets}
Texts == CallTexts \cup ReplyTexts \cup StarterTexts

VARIABLES
    hashSeed,        \* the per-process seed of str hashing
    other_agents,    \* [agent -> sequence of registered names, in dict insertion order]
    agent_states,    \* [agent -> [registered name -> its interaction state]]
    lastUpdate,      \* the latest _update_agent_state call: its arguments and effect
    processed,       \* [agent -> set of message hashes]   (_processed_messages)
    conversations,   \* [agent -> [chat id -> [messages, participants]]]
    chat_history,    \* [agent -> [chat id -> sequence of history entries]]
    channel,         \* the posts sent to the group chat, in order
    updates,         \* the text messages users posted in the group, in order
    next_update,     \* [agent -> index of the next update its bot dispatches]
    tasks,           \* the running coroutines: a sequence of [stack, status]
    loopEval,        \* [agent -> what start_conversation_loop computed after its delay]
    retry,           \* the call of a retrying transport function in progress
    selections,      \* the responder selections made by the latest step
    dropped,         \* the deliveries the latest step discarded (own message, duplicate)
    replies,         \* number of completions the service has returned
    calls            \* number of receive_message calls made from outside

vars == <<hashSeed, other_agents, agent_states, lastUpdate, processed, conversations,
         chat_history, channel, updates, next_update, tasks, loopEval, retry, selections,
         dropped, replies, calls>>

(***************************************************************************)
(* hash(str): CPython hashes a str with a keyed function whose key is      *)
(* drawn once per process; the result is a signed machine integer.  The    *)
(* model keeps the seed as a free per-process value and the signed integer *)
(* of HashBits bits, and mixes the characters polynomially:                *)
(*   h := seed;  for c in s:  h := (h * 31 + ord(c)) mod 2^HashBits.       *)
(***************************************************************************)
RECURSIVE Pow2(_)
Pow2(n) == IF n = 0 THEN 1 ELSE 2 * Pow2(n - 1)

HashModulus == Pow2(HashBits)

(* 31^n mod 2^HashBits *)
RECURSIVE Pow31(_)
Pow31(n) ==
    IF n = 0 THEN 1
    ELSE LET half == Pow31(n \div 2)
             sq == (half * half) % HashModulus
         IN  IF n % 2 = 1 THEN (sq * 31) % HashModulus ELSE sq

(* the loop above run over s[lo..hi] from h = 0, evaluated by halves *)
RECURSIVE Poly(_, _, _)
Poly(s, lo, hi) ==
    IF lo > hi THEN 0
    ELSE IF lo = hi THEN CodePoint[s[lo]] % HashModulus
    ELSE LET mid == (lo + hi) \div 2
         IN  (Poly(s, lo, mid) * Pow31(hi - mid) + Poly(s, mid + 1, hi)) % HashModulus

PyHash(seed, s) ==
    LET u == (seed * Pow31(Len(s)) + Poly(s, 1, Len(s))) % HashModulus
    IN  IF u >= HashModulus \div 2 THEN u - HashModulus ELSE u

Abs(x) == IF x < 0 THEN -x ELSE x

(* f"{sender}:{content}" *)
HashKey(sender, content) == Concat(Concat(Chars(sender), <<":">>), Chars(content))

(* hash(f"{sender}:{content}") under each seed, computed once *)
HashTable ==
    [k \in (0..MaxSeed) \X Names \X Texts |-> PyHash(k[1], HashKey(k[2], k[3]))] @@ <<>>

(* message_hash = hash(f"{sender}:{content}") *)
MessageHash(sender, content) == HashTable[<<hashSeed, sender, content>>]

(***************************************************************************)
(* Responder selection of receive_message.                                 *)
(***************************************************************************)
InitialKeywords == <<"BTC", "ETH", "USDT", "BNB">>

(* the list with the sender left in: what C4 rests on *)
AvailableRespondersUnfiltered(others, self, sender) == others \o <<self>>

(* [name for name in list(self._other_agents.keys()) + [self.name] if name != sender] *)
AvailableResponders(others, self, sender) ==
    SelectSeq(others \o <<self>>, LAMBDA n : n # sender)

(* any(keyword in content for keyword in initial_keywords) *)
HasKeyword(content) ==
    \E k \in 1..Len(InitialKeywords) : Contains(Chars(content), Chars(InitialKeywords[k]))

KeywordTable == [content \in Texts |-> HasKeyword(content)]

IsInitialMessage(content) == KeywordTable[content]

NameLess == [p \in Names \X Names |-> StrLess(Chars(p[1]), Chars(p[2]))]

(* the first of the list instead of the least: what C11 rests on *)
MinNameFirst(list) == list[1]

(* min(list of str) *)
MinName(list) ==
    CHOOSE n \in {list[i] : i \in 1..Len(list)} :
        \A m \in {list[i] : i \in 1..Len(list)} : m = n \/ NameLess[<<n, m>>]

(* available_responders[abs(combined_hash) % len(available_responders)] *)
HashPick(list, sender, content) ==
    list[(Abs(MessageHash(sender, content)) % Len(list)) + 1]

(* a selection that ignores the keywords: what C5 rests on *)
SelectedByHash(list, sender, content) == HashPick(list, sender, content)

(* if is_initial_message: min(...) else: the element at the hash index *)
SelectedResponder(list, sender, content) ==
    IF IsInitialMessage(content) THEN MinName(list) ELSE HashPick(list, sender, content)

(***************************************************************************)
(* AgentConversation and the per-agent dictionary of conversations.        *)
(***************************************************************************)
AgentMessage(sender, content) == [sender |-> sender, content |-> content]

NewConversation == [messages |-> <<>>, participants |-> {}]

(* a message put in front of the others: what C27 rests on *)
add_message_first(conv, message) ==
    [messages |-> <<message>> \o conv.messages,
     participants |-> conv.participants \cup {message.sender}]

(* AgentConversation.add_message *)
add_message(conv, message) ==
    [messages |-> Append(conv.messages, message),
     participants |-> conv.participants \cup {message.sender}]

(* if chat_id not in self._conversations: ... = AgentConversation(); then add_message *)
StoreMessage(convs, chat, message) ==
    [c \in DOMAIN convs \cup {chat} |->
        LET old == IF c \in DOMAIN convs THEN convs[c] ELSE NewConversation
        IN  IF c = chat THEN add_message(old, message) ELSE old]

(***************************************************************************)
(* Coroutine frames.  pc is the point the frame is suspended at:           *)
(*   receive_message: "call" (entered, not yet run), "reply" (the jitter   *)
(*     sleep and then the completion call: resuming from the sleep only    *)
(*     builds the prompt and suspends again), "send" (bot.send_message),   *)
(*     "prop" (inside the for loop over _other_agents, a callee above it); *)
(*   start_conversation_loop: "warmup", "send", "prop", "idle".            *)
(***************************************************************************)
NoText == "-"

Frame(fn, agent, chat, sender, content, pc) ==
    [fn |-> fn, agent |-> agent, chat |-> chat, sender |-> sender, content |-> content,
     pc |-> pc, resp |-> NoText, k |-> 0, n0 |-> 0, u |-> 0]

Task(stack, status) == [stack |-> stack, status |-> status]

(* what one run of a coroutine can change; selections and dropped log what *)
(* this run does                                                          *)
Ctx(task) ==
    [stack |-> task.stack, status |-> task.status, processed |-> processed,
     conversations |-> conversations, selections |-> {}, dropped |-> {}]

Pop(G) ==
    LET rest == SubSeq(G.stack, 1, Len(G.stack) - 1)
    IN  [G EXCEPT !.stack = rest,
                  !.status = IF rest = <<>> THEN "returned" ELSE @]

(* An exception leaves every receive_message and send_message frame through *)
(* "except Exception: ... raise"; start_conversation_loop catches it, logs  *)
(* and returns.                                                            *)
Raise(G) ==
    [G EXCEPT !.stack = <<>>,
              !.status = IF G.stack[1].fn = "loop" THEN "caught" ELSE "raised"]

(* if sender == self.name: return *)
IsOwnMessage(self, sender) == sender = self

(* a guard that never finds the hash: what C1 rests on *)
AlreadyProcessedNever(seen, h) == FALSE

(* if message_hash in self._processed_messages: return *)
AlreadyProcessed(seen, h) == h \in seen

(* a set that keeps only the newest hash: what C17 rests on *)
AddProcessedOnly(seen, h) == {h}

(* self._processed_messages.add(message_hash) *)
AddProcessed(seen, h) == seen \cup {h}

(* receive_message from its entry to the selection (lines 392-435): the     *)
(* frame is left suspended at the jitter sleep, or the call has returned.   *)
Enter(G) ==
    LET n == Len(G.stack)
        f == G.stack[n]
        a == f.agent
        h == MessageHash(f.sender, f.content)
        list == AvailableResponders(other_agents[a], a, f.sender)
        sel == SelectedResponder(list, f.sender, f.content)
        G1 == [G EXCEPT !.processed[a] = AddProcessed(@, h),
                        !.conversations[a] =
                            StoreMessage(@, f.chat, AgentMessage(f.sender, f.content)),
                        !.selections = @ \cup
                            {[agent |-> a, sender |-> f.sender, content |-> f.content,
                              available |-> list, selected |-> sel]}]
        D(why) == [G EXCEPT !.dropped = @ \cup
                      {[agent |-> a, sender |-> f.sender, content |-> f.content,
                        why |-> why]}]
    IN  IF IsOwnMessage(a, f.sender) THEN Pop(D("own"))
        ELSE IF AlreadyProcessed(G.processed[a], h) THEN Pop(D("duplicate"))
        ELSE IF sel = a THEN [G1 EXCEPT !.stack[n].pc = "reply"]
        ELSE Pop(G1)

(* a loop that starts over after its starter: what C12 rests on *)
AfterStarterAgain(f) == [f EXCEPT !.pc = "warmup"]

(* while True: await asyncio.sleep(60) *)
AfterStarter(f) == [f EXCEPT !.pc = "idle"]

(* One step of "for agent_name, agent in self._other_agents.items(): await  *)
(* agent.receive_message(chat, self.name, text)": the dict iterator raises  *)
(* RuntimeError when the dict changed size since the loop began.            *)
Propagate(G) ==
    LET n == Len(G.stack)
        f == G.stack[n]
        a == f.agent
    IN  IF Len(other_agents[a]) # f.n0 THEN Raise(G)
        ELSE IF f.k > f.n0
             THEN IF f.fn = "loop" THEN [G EXCEPT !.stack[n] = AfterStarter(f)] ELSE Pop(G)
        ELSE [G EXCEPT !.stack =
                Append([@ EXCEPT ![n].k = f.k + 1],
                       Frame("receive_message", other_agents[a][f.k], GroupChatId,
                             a, f.resp, "call"))]

(* Run the task until its top frame is at a suspension point or it ended.  *)
(* (The singleton set binds the context to its value, computed once.)      *)
RECURSIVE RunTask(_)
RunTask(G) ==
    CHOOSE r \in {IF g.stack = <<>> THEN g
                  ELSE IF g.stack[Len(g.stack)].pc = "call" THEN RunTask(Enter(g))
                  ELSE IF g.stack[Len(g.stack)].pc = "prop" THEN RunTask(Propagate(g))
                  ELSE g : g \in {G}} : TRUE
(***************************************************************************)
(* The errors of the transport.                                            *)
(***************************************************************************)
MaxRetries == 3
BackoffStep == 2

(* the classes of telegram.error named by the except clauses, and two that *)
(* they do not name, each with its base class                              *)
ExcBase ==
    [TimedOut |-> "NetworkError", BadRequest |-> "NetworkError",
     NetworkError |-> "TelegramError", Forbidden |-> "TelegramError",
     TelegramError |-> "Exception", RuntimeError |-> "Exception"]

Raisable == {"TimedOut", "NetworkError", "BadRequest", "Forbidden", "RuntimeError"}

RECURSIVE IsInstance(_, _)
IsInstance(e, cls) ==
    \/ e = cls
    \/ e \in DOMAIN ExcBase /\ IsInstance(ExcBase[e], cls)

(* except (TimedOut, NetworkError) *)
IsRetried(e) == IsInstance(e, "TimedOut") \/ IsInstance(e, "NetworkError")

(* a timeout or a failure of the network, as opposed to a rejected request *)
Transient(e) == e \in {"TimedOut", "NetworkError"}


(***************************************************************************)
(* Initial state: every agent constructed and set up (setup_telegram has   *)
(* started polling and created its conversation-loop task), nothing        *)
(* registered, received or sent.                                           *)
(***************************************************************************)
AgentOrder == <<"Alpha", "Beta", "Gamma">>

LoopTask(a) == Task(<<Frame("loop", a, GroupChatId, NoText, NoText, "warmup")>>, "running")

NotEvaluated == [evaluated |-> FALSE, peers |-> 0, should_start |-> FALSE]

(* response_rate is a float between 0 and 1: the model counts it in units of *)
(* 1/RateUnit                                                               *)
RateUnit == 1000

(* the state register_agent gives a name: conversation_count 0, response_rate 1.0 *)
InitialPeerState == [conversation_count |-> 0, response_rate |-> RateUnit]

NoUpdate ==
    [agent |-> NoText, name |-> NoText, action |-> NoText, found |-> FALSE,
     old |-> InitialPeerState, new |-> InitialPeerState]

NoRetry ==
    [fn |-> NoText, pc |-> "idle", attempt |-> 0, attempts |-> 0, waits |-> <<>>,
     errors |-> <<>>, result |-> NoText]

Init ==
    /\ hashSeed \in 0..MaxSeed
    /\ other_agents = [a \in Agents |-> <<>>]
    /\ agent_states = [a \in Agents |-> <<>>]
    /\ lastUpdate = NoUpdate
    /\ processed = [a \in Agents |-> {}]
    /\ conversations = [a \in Agents |-> <<>>]
    /\ chat_history = [a \in Agents |-> <<>>]
    /\ channel = <<>>
    /\ updates = <<>>
    /\ next_update = [a \in Agents |-> 1]
    /\ tasks = [i \in 1..Len(AgentOrder) |-> LoopTask(AgentOrder[i])]
    /\ loopEval = [a \in Agents |-> NotEvaluated]
    /\ retry = NoRetry
    /\ selections = {}
    /\ dropped = {}
    /\ replies = 0
    /\ calls = 0

chanVars == <<chat_history, updates, next_update>>

peerVars == <<agent_states, lastUpdate>>

(* the effects of one run of task t, left in context G; a call that has *)
(* returned or raised leaves the set of running tasks                   *)
Remove(seq, t) == SubSeq(seq, 1, t - 1) \o SubSeq(seq, t + 1, Len(seq))

Commit(t, G, newTasks) ==
    \E g \in {G} :
        /\ tasks' = IF g.stack = <<>> /\ newTasks[t].stack[1].fn # "loop"
                    THEN Remove(newTasks, t)
                    ELSE [newTasks EXCEPT ![t] = Task(g.stack, g.status)]
        /\ processed' = g.processed
        /\ conversations' = g.conversations
        /\ selections' = g.selections
        /\ dropped' = g.dropped

Top(t) == tasks[t].stack[Len(tasks[t].stack)]

AtPc(t, fn, pc) ==
    /\ tasks[t].stack # <<>>
    /\ Top(t).fn = fn
    /\ Top(t).pc = pc

SetTop(task, f) == [task EXCEPT !.stack[Len(task.stack)] = f]

(* register_agent(name, agent): a dict assignment keeps the position of a key *)
(* that is already present                                                    *)
RegisterAgent(others, name) ==
    IF \E i \in 1..Len(others) : others[i] = name THEN others ELSE Append(others, name)

(* self._agent_states[name] = {...}: the state of the name starts afresh *)
ResetState(states, name) ==
    [n \in DOMAIN states \cup {name} |-> IF n = name THEN InitialPeerState ELSE states[n]]

Register(a, name) ==
    /\ \/ other_agents[a] # RegisterAgent(other_agents[a], name)
       \/ agent_states[a] # ResetState(agent_states[a], name)
    /\ other_agents' = [other_agents EXCEPT ![a] = RegisterAgent(@, name)]
    /\ agent_states' = [agent_states EXCEPT ![a] = ResetState(@, name)]
    /\ selections' = {}
    /\ dropped' = {}
    /\ UNCHANGED <<hashSeed, lastUpdate, processed, conversations, channel, tasks, replies, calls,
                   chanVars, loopEval, retry>>

(* a caller outside the agents invokes agent.receive_message(chat, sender, content) *)
CallReceive(a, sender, content) ==
    /\ calls < MaxCalls
    /\ calls' = calls + 1
    /\ LET t == Len(tasks) + 1
           new == Task(<<Frame("receive_message", a, GroupChatId, sender, content, "call")>>,
                       "running")
       IN  Commit(t, RunTask(Ctx(new)), Append(tasks, new))
    /\ UNCHANGED <<hashSeed, peerVars, other_agents, channel, replies, chanVars, loopEval, retry>>

(* the jitter sleep is over and the completion has arrived; bot.send_message *)
(* is awaited                                                                *)
Complete(t, text) ==
    /\ AtPc(t, "receive_message", "reply")
    /\ tasks' = [tasks EXCEPT ![t] = SetTop(@, [Top(t) EXCEPT !.pc = "send", !.resp = text])]
    /\ selections' = {}
    /\ dropped' = {}
    /\ UNCHANGED <<hashSeed, peerVars, other_agents, processed, conversations, channel, calls,
                   chanVars, loopEval, retry>>

(* a completion, counted against the number the service returns *)
Generated(t, text) ==
    /\ replies < MaxReplies
    /\ replies' = replies + 1
    /\ Complete(t, text)

(* get_completion raises *)
GenerationFails(t) ==
    /\ AtPc(t, "receive_message", "reply")
    /\ LET f == Top(t)
           lost == [agent |-> f.agent, sender |-> f.sender, content |-> f.content,
                    why |-> "generation"]
       IN  Commit(t, Raise([Ctx(tasks[t]) EXCEPT !.dropped = {lost}]), tasks)
    /\ UNCHANGED <<hashSeed, peerVars, other_agents, channel, replies, calls, chanVars, loopEval, retry>>

(* a message in the group: who sent it, how, its text, and what it answers *)
Post(by, kind, text, sender, content, u) ==
    [by |-> by, kind |-> kind, text |-> text, sender |-> sender, content |-> content,
     u |-> u]

(* bot.send_message returns: the reply is in the group; the for loop over *)
(* _other_agents starts                                                   *)
Sent(t) ==
    /\ AtPc(t, "receive_message", "send")
    /\ LET f == Top(t)
           g == [f EXCEPT !.pc = "prop", !.k = 1, !.n0 = Len(other_agents[f.agent])]
       IN  /\ channel' = Append(channel, Post(f.agent, "reply", f.resp, f.sender, f.content, 0))
           /\ Commit(t, RunTask(Ctx(SetTop(tasks[t], g))), tasks)
    /\ UNCHANGED <<hashSeed, peerVars, other_agents, replies, calls, chanVars, loopEval, retry>>

(* the reply is sent by one await of bot.send_message, outside any loop *)
DirectSendAttempts == 1

(* the log line of a send that failed with error e *)
SendError(f, e) ==
    [agent |-> f.agent, sender |-> f.sender, content |-> f.content, why |-> "send",
     text |-> f.resp, transient |-> Transient(e), attempts |-> DirectSendAttempts]

(* a handler that goes back to the completion: what C22 rests on *)
OnSendErrorRetry(G) == [G EXCEPT !.stack[Len(G.stack)].pc = "reply"]

(* except Exception as e: the error is printed and raised again *)
OnSendError(G) == Raise(G)

(* bot.send_message raises *)
SendFails(t) ==
    /\ AtPc(t, "receive_message", "send")
    /\ \E e \in Raisable :
          Commit(t, OnSendError([Ctx(tasks[t]) EXCEPT !.dropped = {SendError(Top(t), e)}]), tasks)
    /\ UNCHANGED <<hashSeed, peerVars, other_agents, channel, replies, calls, chanVars, loopEval, retry>>

TaskIds == 1..Len(tasks)

(***************************************************************************)
(* Spec: the peer pipeline between two of the agents and an outside sender *)
(***************************************************************************)
Active == {"Alpha", "Beta"}

Next ==
    \/ \E a \in Active, n \in Active : n # a /\ Register(a, n)
    \/ \E a \in Active : \E s \in {a, "User"}, c \in CallTexts : CallReceive(a, s, c)
    \/ \E t \in TaskIds, r \in ReplyTexts : Generated(t, r)
    \/ \E t \in TaskIds : GenerationFails(t)
    \/ \E t \in TaskIds : Sent(t)
    \/ \E t \in TaskIds : SendFails(t)

Spec == Init /\ [][Next]_vars

(***************************************************************************)
(* SpecSelect: the responder selection of receive_message applied to every *)
(* registry the three agents can build and every sender and text.          *)
(***************************************************************************)
ApplySelect(a, sender, content) ==
    /\ ~IsOwnMessage(a, sender)
    /\ LET list == AvailableResponders(other_agents[a], a, sender)
       IN  selections' = {[agent |-> a, sender |-> sender, content |-> content,
                           available |-> list,
                           selected |-> SelectedResponder(list, sender, content)]}
    /\ dropped' = {}
    /\ UNCHANGED <<hashSeed, peerVars, other_agents, processed, conversations, channel, tasks,
                   replies, calls, chanVars, loopEval, retry>>

NextSelect ==
    \/ \E a \in Agents, n \in Agents : n # a /\ Register(a, n)
    \/ \E a \in Agents, s \in Names, c \in Texts : ApplySelect(a, s, c)

SpecSelect == Init /\ [][NextSelect]_vars

(***************************************************************************)
(* The Telegram handler.  A user's text message in the group reaches the   *)
(* bot of every agent as an update; handle_message runs as a task of its   *)
(* own (block=False).  Bots get no updates for what other bots send.       *)
(***************************************************************************)
UserEntry(text, sender) ==
    [role |-> "user", content |-> text, sender_name |-> sender]

AssistantEntry(text, self) ==
    [role |-> "assistant", content |-> text, sender_name |-> self]

(* if chat_id not in self._chat_history: ... = []; then append *)
AppendHistory(hist, chat, entry) ==
    [c \in DOMAIN hist \cup {chat} |->
        LET old == IF c \in DOMAIN hist THEN hist[c] ELSE <<>>
        IN  IF c = chat THEN Append(old, entry) ELSE old]

(* the names random.choice draws from *)
PotentialResponders(others, self, sender) ==
    SelectSeq(others, LAMBDA n : n # sender) \o (IF self # sender THEN <<self>> ELSE <<>>)

ApologyText == "Sorry, I encountered an error processing your message."

(* a user posts a text message in the group *)
PostUpdate(sender, text) ==
    /\ Len(updates) < MaxUpdates
    /\ updates' = Append(updates, [sender |-> sender, text |-> text])
    /\ selections' = {}
    /\ dropped' = {}
    /\ UNCHANGED <<hashSeed, peerVars, other_agents, processed, conversations, chat_history, channel,
                   next_update, tasks, loopEval, retry, replies, calls>>

(* handle_message up to its first await (lines 275-309); pick is the name *)
(* random.choice returns, or NoText when there is nothing to draw from    *)
HandleMessage(a, pick) ==
    /\ next_update[a] <= Len(updates)
    /\ LET u == next_update[a]
           m == updates[u]
           potential == PotentialResponders(other_agents[a], a, m.sender)
           new == Task(<<[Frame("handle_message", a, GroupChatId, m.sender, m.text, "reply")
                            EXCEPT !.u = u]>>, "running")
       IN  /\ IF potential = <<>>
              THEN pick = NoText
              ELSE \E i \in 1..Len(potential) : pick = potential[i]
           /\ chat_history' = [chat_history EXCEPT ![a] =
                                  AppendHistory(@, GroupChatId, UserEntry(m.text, m.sender))]
           /\ tasks' = IF potential # <<>> /\ a = pick THEN Append(tasks, new) ELSE tasks
    /\ next_update' = [next_update EXCEPT ![a] = @ + 1]
    /\ selections' = {}
    /\ dropped' = {}
    /\ UNCHANGED <<hashSeed, peerVars, other_agents, processed, conversations, channel, updates,
                   loopEval, retry, replies, calls>>

(* the completion has arrived: it is put in the history and reply_text is awaited *)
HandlerGenerated(t, text) ==
    /\ AtPc(t, "handle_message", "reply")
    /\ replies < MaxReplies
    /\ replies' = replies + 1
    /\ LET f == Top(t)
       IN  /\ chat_history' = [chat_history EXCEPT ![f.agent] =
                                  AppendHistory(@, f.chat, AssistantEntry(text, f.agent))]
           /\ tasks' = [tasks EXCEPT ![t] = SetTop(@, [f EXCEPT !.pc = "send", !.resp = text])]
    /\ selections' = {}
    /\ dropped' = {}
    /\ UNCHANGED <<hashSeed, peerVars, other_agents, processed, conversations, channel, updates,
                   next_update, loopEval, retry, calls>>

(* the completion call raises: the inner handler awaits reply_text(apology) *)
HandlerGenerationFails(t) ==
    /\ AtPc(t, "handle_message", "reply")
    /\ tasks' = [tasks EXCEPT ![t] = SetTop(@, [Top(t) EXCEPT !.pc = "apologize"])]
    /\ selections' = {}
    /\ dropped' = {}
    /\ UNCHANGED <<hashSeed, peerVars, other_agents, processed, conversations, channel, chanVars,
                   loopEval, retry, replies, calls>>

(* reply_text(response) returns *)
ReplySent(t) ==
    /\ AtPc(t, "handle_message", "send")
    /\ LET f == Top(t)
       IN  channel' = Append(channel,
                             Post(f.agent, "handler_reply", f.resp, f.sender, f.content, f.u))
    /\ tasks' = Remove(tasks, t)
    /\ selections' = {}
    /\ dropped' = {}
    /\ UNCHANGED <<hashSeed, peerVars, other_agents, processed, conversations, chanVars, loopEval,
                   retry, replies, calls>>

(* reply_text(response) raises: the inner handler awaits reply_text(apology) *)
ReplyFails(t) ==
    /\ AtPc(t, "handle_message", "send")
    /\ tasks' = [tasks EXCEPT ![t] = SetTop(@, [Top(t) EXCEPT !.pc = "apologize"])]
    /\ selections' = {}
    /\ dropped' = {}
    /\ UNCHANGED <<hashSeed, peerVars, other_agents, processed, conversations, channel, chanVars,
                   loopEval, retry, replies, calls>>

(* reply_text(apology) returns *)
ApologySent(t) ==
    /\ AtPc(t, "handle_message", "apologize")
    /\ LET f == Top(t)
       IN  channel' = Append(channel,
                             Post(f.agent, "apology", ApologyText, f.sender, f.content, f.u))
    /\ tasks' = Remove(tasks, t)
    /\ selections' = {}
    /\ dropped' = {}
    /\ UNCHANGED <<hashSeed, peerVars, other_agents, processed, conversations, chanVars, loopEval,
                   retry, replies, calls>>

(* reply_text(apology) raises: the outer handler logs and re-raises *)
ApologyFails(t) ==
    /\ AtPc(t, "handle_message", "apologize")
    /\ tasks' = Remove(tasks, t)
    /\ selections' = {}
    /\ dropped' = {}
    /\ UNCHANGED <<hashSeed, peerVars, other_agents, processed, conversations, channel, chanVars,
                   loopEval, retry, replies, calls>>

(* a user outside the agents, and a user whose first name is an agent's name *)
UpdateSenders == {"User", "Alpha"}

NextChannel ==
    \/ \E a \in Active, n \in Active : n # a /\ Register(a, n)
    \/ \E s \in UpdateSenders, c \in CallTexts : PostUpdate(s, c)
    \/ \E a \in Active, p \in Names \cup {NoText} : HandleMessage(a, p)
    \/ \E t \in TaskIds, r \in ReplyTexts : HandlerGenerated(t, r)
    \/ \E t \in TaskIds : HandlerGenerationFails(t)
    \/ \E t \in TaskIds : ReplySent(t)
    \/ \E t \in TaskIds : ReplyFails(t)
    \/ \E t \in TaskIds : ApologySent(t)
    \/ \E t \in TaskIds : ApologyFails(t)

SpecChannel == Init /\ [][NextChannel]_vars

(***************************************************************************)
(* The retrying transport calls: verify_group_access and                   *)
(* send_message_with_retry.                                                *)
(***************************************************************************)
(* a backoff counted from zero: what C8 rests on *)
WaitTimeFromZero(attempt) == attempt * BackoffStep

(* wait_time = (attempt + 1) * 2 *)
WaitTime(attempt) == (attempt + 1) * BackoffStep

(* if attempt < max_retries - 1 *)
HasAttemptLeft(attempt) == attempt < MaxRetries - 1

RetryFns == {"send_message_with_retry", "verify_group_access"}

(* the function is called: the for loop starts with attempt = 0 and awaits *)
(* the transport                                                           *)
CallRetry(fn) ==
    /\ retry.pc \in {"idle", "done"}
    /\ retry' = [NoRetry EXCEPT !.fn = fn, !.pc = "call"]
    /\ UNCHANGED <<hashSeed, peerVars, other_agents, processed, conversations, channel, tasks,
                   selections, dropped, replies, calls, chanVars, loopEval>>

(* bot.send_message / bot.get_chat returns: the function returns *)
TransportReturns ==
    /\ retry.pc = "call"
    /\ retry' = [retry EXCEPT !.attempts = @ + 1, !.pc = "done", !.result = "ok"]
    /\ UNCHANGED <<hashSeed, peerVars, other_agents, processed, conversations, channel, tasks,
                   selections, dropped, replies, calls, chanVars, loopEval>>

(* the transport raises e: the first except clause that matches runs.  In  *)
(* verify_group_access the clauses after the first only log and re-raise;  *)
(* send_message_with_retry has no other clause and e propagates.           *)
TransportRaises(e) ==
    /\ retry.pc = "call"
    /\ LET r == [retry EXCEPT !.attempts = @ + 1, !.errors = Append(@, e)]
       IN  retry' =
             IF IsRetried(e) /\ HasAttemptLeft(retry.attempt)
             THEN [r EXCEPT !.pc = "wait", !.waits = Append(@, WaitTime(retry.attempt))]
             ELSE [r EXCEPT !.pc = "done", !.result = e]
    /\ UNCHANGED <<hashSeed, peerVars, other_agents, processed, conversations, channel, tasks,
                   selections, dropped, replies, calls, chanVars, loopEval>>

(* asyncio.sleep(wait_time) is over: the next iteration awaits the transport *)
BackoffOver ==
    /\ retry.pc = "wait"
    /\ retry' = [retry EXCEPT !.attempt = @ + 1, !.pc = "call"]
    /\ UNCHANGED <<hashSeed, peerVars, other_agents, processed, conversations, channel, tasks,
                   selections, dropped, replies, calls, chanVars, loopEval>>

NextRetry ==
    \/ \E fn \in RetryFns : CallRetry(fn)
    \/ TransportReturns
    \/ \E e \in Raisable : TransportRaises(e)
    \/ BackoffOver

SpecRetry == Init /\ [][NextRetry]_vars

(***************************************************************************)
(* start_conversation_loop.                                                *)
(***************************************************************************)
(* should_start without the test for registered peers: what C10 rests on *)
ShouldStartAlone(group, others, self) ==
    /\ group # ""
    /\ self = MinName(others \o <<self>>)

(* should_start, as the if statement reads it: an empty dict is false *)
ShouldStart(group, others, self) ==
    /\ group # ""
    /\ others # <<>>
    /\ self = MinName(others \o <<self>>)

(* the 30 s delay is over: should_start is computed once; when it holds the *)
(* starter is formatted and bot.send_message is awaited, otherwise the loop *)
(* goes to its idle sleep                                                   *)
LoopWake(t, asset) ==
    /\ AtPc(t, "loop", "warmup")
    /\ LET f == Top(t)
           a == f.agent
           ss == ShouldStart(GroupChatId, other_agents[a], a)
       IN  /\ loopEval' = [loopEval EXCEPT ![a] =
                             [evaluated |-> TRUE, peers |-> Len(other_agents[a]),
                              should_start |-> ss]]
           /\ IF ss
              THEN tasks' = [tasks EXCEPT ![t] =
                               SetTop(@, [f EXCEPT !.pc = "send", !.resp = Str(Format(asset))])]
              ELSE /\ asset = "BTC"
                   /\ tasks' = [tasks EXCEPT ![t] = SetTop(@, AfterStarter(f))]
    /\ selections' = {}
    /\ dropped' = {}
    /\ UNCHANGED <<hashSeed, peerVars, other_agents, processed, conversations, channel, chanVars,
                   retry, replies, calls>>

(* bot.send_message returns: the starter is in the group; the for loop over *)
(* _other_agents starts                                                     *)
StarterSent(t) ==
    /\ AtPc(t, "loop", "send")
    /\ LET f == Top(t)
           g == [f EXCEPT !.pc = "prop", !.k = 1, !.n0 = Len(other_agents[f.agent])]
       IN  /\ channel' = Append(channel, Post(f.agent, "starter", f.resp, NoText, NoText, 0))
           /\ Commit(t, RunTask(Ctx(SetTop(tasks[t], g))), tasks)
    /\ UNCHANGED <<hashSeed, peerVars, other_agents, replies, calls, chanVars, loopEval, retry>>

(* bot.send_message raises: the loop's handler logs it and the task ends *)
StarterSendFails(t) ==
    /\ AtPc(t, "loop", "send")
    /\ \E e \in Raisable :
          Commit(t, Raise([Ctx(tasks[t]) EXCEPT !.dropped = {SendError(Top(t), e)}]), tasks)
    /\ UNCHANGED <<hashSeed, peerVars, other_agents, channel, replies, calls, chanVars, loopEval, retry>>

(* a cancellation that leaves the coroutine running: what C13 rests on *)
CancelledIgnored(task) == [task EXCEPT !.status = "cancelled"]

(* CancelledError is raised at the await the task is suspended at; it is no *)
(* Exception, so no handler of the loop or of a receive_message frame above *)
(* it catches it, and the task ends cancelled                               *)
Cancelled(task) == Task(<<>>, "cancelled")

(* cleanup: self._conversation_task.cancel() and the awaited end of the task *)
CancelLoop(t) ==
    /\ tasks[t].stack # <<>>
    /\ tasks[t].stack[1].fn = "loop"
    /\ tasks' = [tasks EXCEPT ![t] = Cancelled(@)]
    /\ selections' = {}
    /\ dropped' = {}
    /\ UNCHANGED <<hashSeed, peerVars, other_agents, processed, conversations, channel,
                   chanVars, loopEval, retry, replies, calls>>

NextLoop ==
    \/ \E a \in Active, n \in Active : n # a /\ Register(a, n)
    \/ \E t \in TaskIds, asset \in StarterAssets :
          AtPc(t, "loop", "warmup") /\ Top(t).agent \in Active /\ LoopWake(t, asset)
    \/ \E t \in TaskIds : StarterSent(t)
    \/ \E t \in TaskIds : StarterSendFails(t)
    \/ \E t \in TaskIds, r \in ReplyTexts : Complete(t, r) /\ UNCHANGED replies
    \/ \E t \in TaskIds : GenerationFails(t)
    \/ \E t \in TaskIds : Sent(t)
    \/ \E t \in TaskIds : SendFails(t)
    \/ \E t \in TaskIds :
          tasks[t].stack # <<>> /\ tasks[t].stack[1].agent \in Active /\ CancelLoop(t)

SpecLoop == Init /\ [][NextLoop]_vars

(***************************************************************************)
(* SpecStart: the conversation loops of all three agents, with the         *)
(* registrations among them in every order and at every time; the replies  *)
(* to a starter stay pending or fail.                                      *)
(***************************************************************************)
NextStart ==
    \/ \E a \in Agents, n \in Agents : n # a /\ Register(a, n)
    \/ \E t \in TaskIds, asset \in StarterAssets : LoopWake(t, asset)
    \/ \E t \in TaskIds : StarterSent(t)
    \/ \E t \in TaskIds : StarterSendFails(t)
    \/ \E t \in TaskIds : GenerationFails(t)

SpecStart == Init /\ [][NextStart]_vars

(***************************************************************************)
(* _update_agent_state and the states register_agent creates.              *)
(***************************************************************************)
(* an average that only decays: what C14 rests on *)
EmaStepDecay(rate) == (rate * 9) \div 10

(* state["response_rate"] * 0.9 + 0.1 *)
EmaStep(rate) == (rate * 9) \div 10 + RateUnit \div 10

StateActions == {"message_sent", "response_sent"}

(* an update that counts every event: what C26 rests on *)
UpdatedStateAnyEvent(state, action) == [state EXCEPT !.conversation_count = @ + 1]

(* the entry of the name after the call; a name without entry has none after *)
UpdatedState(state, action) ==
    IF action = "message_sent"
    THEN [state EXCEPT !.conversation_count = @ + 1]
    ELSE IF action = "response_sent"
    THEN [state EXCEPT !.response_rate = EmaStep(@)]
    ELSE state

(* self._update_agent_state(agent_name, action) on agent a *)
UpdateAgentState(a, name, action) ==
    /\ LET found == name \in DOMAIN agent_states[a]
           old == IF found THEN agent_states[a][name] ELSE InitialPeerState
           new == IF found THEN UpdatedState(old, action) ELSE old
       IN  /\ new.conversation_count <= MaxCount
           /\ agent_states' = IF found
                              THEN [agent_states EXCEPT ![a][name] = new]
                              ELSE agent_states
           /\ lastUpdate' = [agent |-> a, name |-> name, action |-> action,
                             found |-> found, old |-> old, new |-> new]
    /\ UNCHANGED <<hashSeed, other_agents, processed, conversations, channel, tasks,
                   selections, dropped, replies, calls, chanVars, loopEval, retry>>

NextStates ==
    \/ \E a \in Active, n \in Agents : n # a /\ Register(a, n)
    \/ \E a \in Active, n \in Agents, action \in StateActions :
          UpdateAgentState(a, n, action)

SpecStates == Init /\ [][NextStates]_vars

(***************************************************************************)
(* SpecCascade: the peer pipeline of Spec with as many completions as the  *)
(* calls ask for, and with every suspended call resumed in the end: the    *)
(* event loop ends the jitter sleep, and the awaited completion and the    *)
(* awaited send return or raise.                                           *)
(***************************************************************************)
CascadeTasks == 1..(Len(AgentOrder) + MaxCascades)

(* the event loop resumes the call that task t is suspended in *)
Resume(t) ==
    /\ t \in TaskIds
    /\ \/ \E r \in ReplyTexts : Complete(t, r) /\ UNCHANGED replies
       \/ GenerationFails(t)
       \/ Sent(t)
       \/ SendFails(t)

NextCascade ==
    \/ \E a \in Active, n \in Active : n # a /\ Register(a, n)
    \/ \E a \in Active, c \in CallTexts :
          calls < MaxCascades /\ CallReceive(a, "User", c)
    \/ \E t \in TaskIds, r \in ReplyTexts : Complete(t, r) /\ UNCHANGED replies
    \/ \E t \in TaskIds : GenerationFails(t)
    \/ \E t \in TaskIds : Sent(t)
    \/ \E t \in TaskIds : SendFails(t)

SpecCascade ==
    Init /\ [][NextCascade]_vars /\ \A t \in CascadeTasks : WF_vars(Resume(t))

(***************************************************************************)
(* SpecStarterReply: the agents register one another completely, then the  *)
(* conversation loops wake; every completion and every send returns, and   *)
(* every suspended task is resumed in the end.                             *)
(***************************************************************************)
MutuallyRegistered ==
    \A a \in Agents : Len(other_agents[a]) = Cardinality(Agents) - 1

(* the event loop resumes task t: its delay is over, or the completion or *)
(* the send it awaits returns                                             *)
Proceed(t) ==
    /\ t \in TaskIds
    /\ \/ \E asset \in StarterAssets : MutuallyRegistered /\ LoopWake(t, asset)
       \/ StarterSent(t)
       \/ \E r \in ReplyTexts : Complete(t, r) /\ UNCHANGED replies
       \/ Sent(t)

NextStarterReply ==
    \/ \E a \in Agents, n \in Agents : n # a /\ Register(a, n)
    \/ \E t \in TaskIds, asset \in StarterAssets : MutuallyRegistered /\ LoopWake(t, asset)
    \/ \E t \in TaskIds : StarterSent(t)
    \/ \E t \in TaskIds, r \in ReplyTexts : Complete(t, r) /\ UNCHANGED replies
    \/ \E t \in TaskIds : Sent(t)

SpecStarterReply ==
    /\ Init
    /\ [][NextStarterReply]_vars
    /\ \A t \in 1..Len(AgentOrder) : WF_vars(Proceed(t))

(***************************************************************************)
(* Properties.                                                             *)
(***************************************************************************)
Range(seq) == {seq[i] : i \in 1..Len(seq)}

(* the modelled hash separates the (sender, content) pairs of the model, as *)
(* the 64-bit hash separates them in practice                               *)
HashInjective ==
    \A s1 \in Names, s2 \in Names, c1 \in Texts, c2 \in Texts :
        MessageHash(s1, c1) = MessageHash(s2, c2) => s1 = s2 /\ c1 = c2

MessagesOf(a) ==
    IF GroupChatId \in DOMAIN conversations[a]
    THEN conversations[a][GroupChatId].messages ELSE <<>>

HistoryOf(a) ==
    IF GroupChatId \in DOMAIN chat_history[a] THEN chat_history[a][GroupChatId] ELSE <<>>

(* how many times agent a holds the message (sender, content) *)
Stored(a, sender, content) ==
    Cardinality({i \in 1..Len(MessagesOf(a)) :
                    MessagesOf(a)[i] = AgentMessage(sender, content)})

(* the replies of agent a to (sender, content) that are in the group *)
RepliesTo(a, sender, content) ==
    Cardinality({i \in 1..Len(channel) :
                    /\ channel[i].by = a
                    /\ channel[i].kind = "reply"
                    /\ channel[i].sender = sender
                    /\ channel[i].content = content})

(* every reply made or being made: one mark for each reply in the group and *)
(* for each receive_message frame that waits for its completion or its send *)
ReplyMarks ==
    {[agent |-> channel[i].by, sender |-> channel[i].sender,
      content |-> channel[i].content, at |-> <<0, i>>] :
        i \in {j \in 1..Len(channel) : channel[j].kind = "reply"}}
    \cup
    {[agent |-> tasks[p[1]].stack[p[2]].agent, sender |-> tasks[p[1]].stack[p[2]].sender,
      content |-> tasks[p[1]].stack[p[2]].content, at |-> p] :
        p \in {q \in UNION {{<<t, i>> : i \in 1..Len(tasks[t].stack)} : t \in TaskIds} :
                  /\ tasks[q[1]].stack[q[2]].fn = "receive_message"
                  /\ tasks[q[1]].stack[q[2]].pc \in {"reply", "send"}}}

(* C1: receive_message is idempotent.  For every sender other than the      *)
(* agent itself and every content, however often and in whatever            *)
(* interleaving the pair is delivered, the agent's conversation holds the   *)
(* message at most once, holds it exactly once when a repeated delivery has *)
(* just been discarded, and the agent makes at most one reply to it.        *)
C1_Idempotent ==
    /\ \A a \in Agents : \A i \in 1..Len(MessagesOf(a)), j \in 1..Len(MessagesOf(a)) :
          (MessagesOf(a)[i] = MessagesOf(a)[j] /\ MessagesOf(a)[i].sender # a) => i = j
    /\ \A x \in ReplyMarks, y \in ReplyMarks :
          (x.agent = y.agent /\ x.sender = y.sender /\ x.content = y.content) => x = y
    /\ \A d \in dropped :
          d.why = "duplicate" => Stored(d.agent, d.sender, d.content) = 1

(* a second identical delivery was discarded after the first was answered *)
C1_Witness ==
    \E d \in dropped :
        /\ d.why = "duplicate"
        /\ d.sender # d.agent
        /\ Stored(d.agent, d.sender, d.content) = 1
        /\ RepliesTo(d.agent, d.sender, d.content) = 1

(* C2: an event whose sender is the agent's own name changes nothing: the   *)
(* agent's histories hold no entry of that sender, no hash of such a pair   *)
(* is recorded, and the agent neither makes nor sends a reply to it.        *)
C2_OwnEventIgnored ==
    \A a \in Agents :
        /\ \A i \in 1..Len(HistoryOf(a)) :
              HistoryOf(a)[i].role = "user" => HistoryOf(a)[i].sender_name # a
        /\ \A i \in 1..Len(MessagesOf(a)) : MessagesOf(a)[i].sender # a
        /\ \A c \in Texts : MessageHash(a, c) \notin processed[a]
        /\ \A i \in 1..Len(channel) : channel[i].by = a => channel[i].sender # a
        /\ \A t \in TaskIds : \A i \in 1..Len(tasks[t].stack) :
              tasks[t].stack[i].agent = a => tasks[t].stack[i].sender # a

(* C3: the selection does not depend on the order of registration or on who *)
(* computes it: for a text without keyword, an agent whose candidates for   *)
(* the same sender have the same members as those of the agent that just    *)
(* selected computes the same responder.                                    *)
C3_OrderIndependent ==
    \A r \in selections : \A b \in Agents \ {r.sender} :
        LET lb == AvailableResponders(other_agents[b], b, r.sender)
        IN  (~HasKeyword(r.content) /\ Range(lb) = Range(r.available))
                => SelectedResponder(lb, r.sender, r.content) = r.selected

(* C4: the selected responder is one of the candidates, which are the       *)
(* registered peers and the agent itself without the sender: it is never    *)
(* the sender and never a name that is neither the agent nor a peer.        *)
C4_SelectedIsCandidate ==
    \A r \in selections :
        /\ r.selected # r.sender
        /\ r.selected \in (Range(other_agents[r.agent]) \cup {r.agent}) \ {r.sender}
        /\ Range(r.available) = (Range(other_agents[r.agent]) \cup {r.agent}) \ {r.sender}

(* the sender is a registered peer and the hash chose among two others *)
C4_Witness ==
    \E r \in selections :
        /\ r.sender \in Range(other_agents[r.agent])
        /\ ~HasKeyword(r.content)
        /\ Len(r.available) = 2
        /\ r.selected # r.agent

(* C5: a content that contains BTC, ETH, USDT or BNB selects the            *)
(* lexicographically least candidate, whatever the sender and the hash;     *)
(* candidates Alpha, Beta, Gamma and 'BTC is pumping' select Alpha.         *)
C5_KeywordSelectsMinimum ==
    \A r \in selections :
        /\ HasKeyword(r.content) =>
              \A n \in Range(r.available) :
                  n = r.selected \/ StrLess(Chars(r.selected), Chars(n))
        /\ (r.content = "BTC is pumping" /\ Range(r.available) = {"Alpha", "Beta", "Gamma"})
              => r.selected = "Alpha"

(* the example, with Alpha not the first of the list *)
C5_Witness ==
    \E r \in selections :
        /\ r.content = "BTC is pumping"
        /\ Range(r.available) = {"Alpha", "Beta", "Gamma"}
        /\ r.available[1] # "Alpha"
        /\ r.selected = "Alpha"

(* the agents that sent something to the group in answer to update u *)
Repliers(u) == {channel[i].by : i \in {j \in 1..Len(channel) : channel[j].u = u}}

(* every running agent's handler has dealt with update u and is done *)
Handled(u) ==
    /\ \A a \in Active : next_update[a] > u
    /\ \A t \in TaskIds : \A i \in 1..Len(tasks[t].stack) : tasks[t].stack[i].u # u

(* C6: a message in the group that every agent's handler has dealt with is *)
(* answered by exactly one agent.                                          *)
C6_ExactlyOneReplier ==
    \A u \in 1..Len(updates) : Handled(u) => Cardinality(Repliers(u)) = 1

(* C7: every event kept in a history went through the duplicate guard      *)
(* first: its hash is among the processed hashes, and no history holds the  *)
(* same (sender, content) twice.                                            *)
C7_GuardBeforeAppend ==
    \A a \in Agents :
        /\ \A i \in 1..Len(MessagesOf(a)) :
              MessageHash(MessagesOf(a)[i].sender, MessagesOf(a)[i].content) \in processed[a]
        /\ \A i \in 1..Len(HistoryOf(a)) :
              HistoryOf(a)[i].role = "user" =>
                  /\ MessageHash(HistoryOf(a)[i].sender_name, HistoryOf(a)[i].content)
                        \in processed[a]
                  /\ \A j \in 1..Len(HistoryOf(a)) :
                        HistoryOf(a)[j] = HistoryOf(a)[i] => j = i

(* C8: a retrying call makes at most 3 attempts; it waits 2 s after the     *)
(* first failure and 4 s after the second and at no other time; when the    *)
(* attempts before a successful one failed with timeouts or network errors  *)
(* the call succeeds after fewer than 3 failures.                           *)
C8_BoundedBackoff ==
    /\ retry.attempts <= 3
    /\ Len(retry.waits) <= 2
    /\ retry.waits = SubSeq(<<2, 4>>, 1, Len(retry.waits))
    /\ retry.pc = "wait" => Len(retry.waits) = retry.attempts
    /\ retry.pc = "done" => Len(retry.waits) = retry.attempts - 1
    /\ (retry.pc = "done" /\ retry.result = "ok") => Len(retry.errors) = retry.attempts - 1
    /\ (/\ retry.pc = "call"
        /\ \A i \in 1..Len(retry.errors) : Transient(retry.errors[i]))
          => /\ Len(retry.errors) < 3
             /\ retry.attempts = Len(retry.errors)
             /\ retry.waits = SubSeq(<<2, 4>>, 1, Len(retry.errors))

(* two transient failures, waits of 2 s and 4 s, success at the third attempt *)
C8_Witness ==
    /\ retry.result = "ok"
    /\ retry.errors = <<"TimedOut", "NetworkError">>
    /\ retry.waits = <<2, 4>>
    /\ retry.attempts = 3

(* C9: an error that is neither a timeout nor a network error ends the call *)
(* at once: it is the last attempt, no wait follows it, and it is what the  *)
(* caller gets.                                                             *)
C9_PermanentNotRetried ==
    \A i \in 1..Len(retry.errors) :
        ~Transient(retry.errors[i]) =>
            /\ i = Len(retry.errors)
            /\ retry.attempts = i
            /\ Len(retry.waits) = i - 1
            /\ retry.pc = "done"
            /\ retry.result = retry.errors[i]

(* the starters agent a has sent to the group *)
StartersBy(a) ==
    Cardinality({i \in 1..Len(channel) : channel[i].by = a /\ channel[i].kind = "starter"})

(* the conversation-loop task of agent a *)
LoopOf(a) == tasks[CHOOSE i \in 1..Len(AgentOrder) : AgentOrder[i] = a]

LoopIdle(a) ==
    /\ LoopOf(a).stack # <<>>
    /\ LoopOf(a).stack[1].pc = "idle"

(* C10 as stated: a loop that finds no registered peer has should_start     *)
(* true and sends exactly one starter.                                      *)
C10_StartsAlone ==
    \A a \in Agents :
        (loopEval[a].evaluated /\ loopEval[a].peers = 0) =>
            /\ loopEval[a].should_start
            /\ StartersBy(a) <= 1
            /\ LoopIdle(a) => StartersBy(a) = 1

(* C10: a loop that finds no registered peer has should_start false, goes   *)
(* to its idle sleep, where it stays until it is cancelled, and never sends *)
(* a starter.                                                               *)
C10_NoStartWithoutPeers ==
    \A a \in Agents :
        (loopEval[a].evaluated /\ loopEval[a].peers = 0) =>
            /\ ~loopEval[a].should_start
            /\ StartersBy(a) = 0
            /\ LoopIdle(a) \/ LoopOf(a).status = "cancelled"

(* a loop evaluated without peers, a peer registered afterwards *)
C10_Witness ==
    \E a \in Agents :
        /\ loopEval[a].evaluated
        /\ loopEval[a].peers = 0
        /\ other_agents[a] # <<>>
        /\ LoopIdle(a)
        /\ StartersBy(a) = 0

(* the agent whose name is the least of all *)
LeastAgent == CHOOSE a \in Agents : \A b \in Agents \ {a} : StrLess(Chars(a), Chars(b))

(* every loop that has computed should_start found all other agents registered *)
FullyRegistered ==
    \A a \in Agents : loopEval[a].evaluated => loopEval[a].peers = Cardinality(Agents) - 1

(* the loop of agent a is past its send: it propagates the starter or idles after it *)
LoopPastSend(a) ==
    /\ LoopOf(a).stack # <<>>
    /\ loopEval[a].should_start
    /\ LoopOf(a).stack[1].pc \in {"prop", "idle"}

(* C11: when every agent had registered every other agent before it         *)
(* computed should_start, should_start holds for the agent with the least   *)
(* name and for no other; that agent has sent exactly one starter once its  *)
(* send has returned, and no other agent has sent any.                      *)
C11_OnlyMinimumStarts ==
    FullyRegistered =>
        \A a \in Agents :
            /\ loopEval[a].evaluated => (loopEval[a].should_start <=> a = LeastAgent)
            /\ a # LeastAgent => StartersBy(a) = 0
            /\ StartersBy(a) <= 1
            /\ LoopPastSend(a) => StartersBy(a) = 1

(* all three loops have decided with every peer registered; Alpha has started *)
C11_Witness ==
    /\ \A a \in Agents : loopEval[a].evaluated /\ loopEval[a].peers = 2
    /\ LeastAgent = "Alpha"
    /\ StartersBy("Alpha") = 1
    /\ StartersBy("Beta") = 0
    /\ StartersBy("Gamma") = 0

(* C12: the loop of an agent sends at most one starter, whatever is         *)
(* registered or received afterwards; a loop that idles has computed        *)
(* should_start.                                                            *)
C12_AtMostOneStarter ==
    \A a \in Agents :
        /\ StartersBy(a) <= 1
        /\ LoopIdle(a) => loopEval[a].evaluated

(* Alpha idles after its starter and has since received a reply of Beta *)
C12_Witness ==
    /\ StartersBy("Alpha") = 1
    /\ LoopIdle("Alpha")
    /\ \E i \in 1..Len(MessagesOf("Alpha")) : MessagesOf("Alpha")[i].sender = "Beta"

(* the loop of agent a was cancelled before it computed should_start *)
CancelledInWarmup(a) ==
    /\ LoopOf(a).status = "cancelled"
    /\ ~loopEval[a].evaluated

(* no agent holds a starter of agent a *)
NoStarterFrom(a) ==
    \A n \in Agents : \A i \in 1..Len(MessagesOf(n)) :
        ~(MessagesOf(n)[i].sender = a /\ MessagesOf(n)[i].content \in StarterTexts)

(* C13: a loop cancelled during its initial delay stays as it is: the agent *)
(* has sent no starter and no peer has received one, then and ever after.   *)
C13_CancelledInWarmupSendsNothing ==
    /\ [](\A a \in Agents :
            CancelledInWarmup(a) => StartersBy(a) = 0 /\ NoStarterFrom(a))
    /\ [][\A a \in Agents :
            CancelledInWarmup(a) =>
                (CancelledInWarmup(a) /\ StartersBy(a) = 0 /\ NoStarterFrom(a))']_vars

(* the least agent, with a registered peer, was cancelled during the delay *)
C13_Witness ==
    /\ CancelledInWarmup(LeastAgent)
    /\ other_agents[LeastAgent] # <<>>

(* C14: the response_rate of every registered name is between 0 and 1, and  *)
(* a response_sent event for a registered name makes it old * 0.9 + 0.1,    *)
(* which is not below the old value and not further from 1.                 *)
C14_ResponseRateBounded ==
    /\ \A a \in Agents : \A n \in DOMAIN agent_states[a] :
          /\ agent_states[a][n].response_rate >= 0
          /\ agent_states[a][n].response_rate <= RateUnit
    /\ (lastUpdate.found /\ lastUpdate.action = "response_sent") =>
          /\ 10 * lastUpdate.new.response_rate = 9 * lastUpdate.old.response_rate + RateUnit
          /\ lastUpdate.new.response_rate >= lastUpdate.old.response_rate
          /\ lastUpdate.new.response_rate <= RateUnit

(* a response_sent event for a name that had a message_sent event before *)
C14_Witness ==
    /\ lastUpdate.found
    /\ lastUpdate.action = "response_sent"
    /\ lastUpdate.old.conversation_count > 0
    /\ agent_states[lastUpdate.agent][lastUpdate.name] = lastUpdate.new

(* C18: the conversation_count of a name never decreases, whatever is       *)
(* registered again and whatever event is recorded.                         *)
C18_CountNeverDecreases ==
    [][\A a \in Agents : \A n \in DOMAIN agent_states[a] :
          agent_states'[a][n].conversation_count >= agent_states[a][n].conversation_count]_vars

(* C15: when the completion for a message fails, the agent holds the        *)
(* message and so does every peer it has registered, the sender aside.      *)
C15_FailureKeepsPropagation ==
    \A d \in dropped :
        d.why = "generation" =>
            /\ Stored(d.agent, d.sender, d.content) = 1
            /\ \A n \in Range(other_agents[d.agent]) \ {d.sender} :
                  Stored(n, d.sender, d.content) >= 1

(* C17: the processed hashes of an agent only grow, so a pair that was      *)
(* processed once is discarded whenever it comes again.                     *)
C17_ProcessedOnlyGrows ==
    /\ [][\A a \in Agents : processed[a] \subseteq processed'[a]]_vars
    /\ [](\A a \in Agents : \A i \in 1..Len(MessagesOf(a)) :
            MessagesOf(a)[i].sender # a =>
                MessageHash(MessagesOf(a)[i].sender, MessagesOf(a)[i].content)
                    \in processed[a])

(* an agent that has processed two pairs discards the repetition of one *)
C17_Witness ==
    \E d \in dropped :
        /\ d.why = "duplicate"
        /\ Cardinality(processed[d.agent]) >= 2
        /\ MessageHash(d.sender, d.content) \in processed[d.agent]

(* the positions i of the messages of agent n that equal message m *)
PositionsOf(n, m) == {i \in 1..Len(MessagesOf(n)) : MessagesOf(n)[i] = m}

(* C19: a peer that holds a reply holds, before it, the message the reply   *)
(* answers (unless the peer sent that message itself).                      *)
C19_OriginalBeforeReply ==
    \A p \in Range(channel) : \A n \in Agents \ {p.by, p.sender} :
        (p.kind = "reply" /\ PositionsOf(n, AgentMessage(p.by, p.text)) # {}) =>
            \E j \in PositionsOf(n, AgentMessage(p.sender, p.content)) :
                \A i \in PositionsOf(n, AgentMessage(p.by, p.text)) : j < i

(* C20: the agent that has sent a reply holds the reply in its own          *)
(* conversation, after the message it answers.                              *)
C20_OwnReplyStored ==
    \A p \in Range(channel) :
        p.kind = "reply" =>
            \E j \in PositionsOf(p.by, AgentMessage(p.sender, p.content)) :
                \E i \in PositionsOf(p.by, AgentMessage(p.by, p.text)) : j < i

(* the receive_message calls that have not returned *)
PendingCalls ==
    {q \in UNION {{<<t, i>> : i \in 1..Len(tasks[t].stack)} : t \in TaskIds} :
        tasks[q[1]].stack[q[2]].fn = "receive_message"}

Quiescent == PendingCalls = {}

(* C16: propagation between peers cannot loop.  No agent stores the same    *)
(* (sender, content) of another sender twice or replies to it twice, and    *)
(* every cascade of receive_message calls comes to a state where no call    *)
(* is pending.                                                              *)
C16_CascadeEnds ==
    /\ [](\A a \in Agents : \A s \in Names \ {a} : \A c \in Texts :
            Stored(a, s, c) <= 1 /\ RepliesTo(a, s, c) <= 1)
    /\ (~Quiescent ~> Quiescent)

(* no call is pending after a cascade in which a reply was answered by a *)
(* reply of the peer                                                     *)
C16_Witness ==
    /\ Quiescent
    /\ \E i \in 1..Len(channel), j \in 1..Len(channel) :
          /\ i < j
          /\ channel[i].kind = "reply" /\ channel[j].kind = "reply"
          /\ channel[j].by # channel[i].by
          /\ channel[j].sender = channel[i].by
          /\ channel[j].content = channel[i].text

(* the sends of the last step that failed *)
SendFailures == {d \in dropped : d.why = "send"}

(* C21: a send of the agent fails on a transient error only when the        *)
(* bounded number of attempts has been made.                                *)
C21_SendFailsAfterRetries ==
    \A d \in SendFailures : d.transient => d.attempts = MaxRetries

(* C22: when the send of a reply fails, the handling of the message ends    *)
(* there: the step posts nothing and hands nothing to a peer, no completion *)
(* or send for the message is left pending, and the message stays marked as *)
(* processed, so that no later delivery of it is answered.                  *)
C22_FailedSendEndsHandling ==
    /\ [](\A d \in SendFailures :
            d.sender # NoText =>
                /\ RepliesTo(d.agent, d.sender, d.content) = 0
                /\ \A x \in ReplyMarks :
                      ~(x.agent = d.agent /\ x.sender = d.sender /\ x.content = d.content)
                /\ MessageHash(d.sender, d.content) \in processed[d.agent])
    /\ [][(\E d \in dropped' : d.why = "send") =>
            /\ channel' = channel
            /\ conversations' = conversations
            /\ processed' = processed]_vars

(* the send of a reply failed at an agent that has a peer to hand it to *)
C22_Witness ==
    \E d \in SendFailures :
        /\ d.sender # NoText
        /\ other_agents[d.agent] # <<>>
        /\ \A n \in Range(other_agents[d.agent]) : Stored(n, d.agent, d.text) = 0

(* C23: an agent that has sent a starter holds the starter in its own       *)
(* conversation, and each of its registered peers comes to hold it.         *)
C23_StarterStored ==
    \A p \in Range(channel) :
        p.kind = "starter" => Stored(p.by, p.by, p.text) >= 1

(* the receive_message calls of agent a between their check for a repeated *)
(* message and the end of their fan-out                                    *)
Handling(a) ==
    {q \in PendingCalls :
        /\ tasks[q[1]].stack[q[2]].agent = a
        /\ tasks[q[1]].stack[q[2]].pc \in {"reply", "send", "prop"}}

(* C24: an agent handles one event at a time: no second receive_message of  *)
(* the agent is under way while an earlier one has not finished.            *)
C24_OneEventAtATime ==
    \A a \in Agents : Cardinality(Handling(a)) <= 1

(* C25: the cancellation of the conversation loop does not end a task that  *)
(* is waiting for a send to the group to return.                            *)
C25_NoSendAborted ==
    [][\A t \in TaskIds :
          (/\ tasks[t].stack # <<>>
           /\ tasks[t].stack[1].fn = "loop"
           /\ Top(t).pc = "send") => tasks'[t].status # "cancelled"]_vars

(* C29: no message of an agent is delivered to the same peer twice: no      *)
(* delivery from a peer is discarded as a repetition.                       *)
C29_FannedOutOnce ==
    \A d \in dropped : d.why = "duplicate" => d.sender \notin Agents

(* C26: a message_sent event for a registered name adds exactly 1 to its    *)
(* conversation_count and leaves its response_rate; a response_sent event   *)
(* leaves its conversation_count; an event leaves the entries of all other  *)
(* names, and an event for a name without entry leaves everything.          *)
C26_EventFrame ==
    [][lastUpdate' # lastUpdate =>
        LET u == lastUpdate'
            before == agent_states[u.agent]
            after == agent_states'[u.agent]
        IN  /\ \A a \in Agents \ {u.agent} : agent_states'[a] = agent_states[a]
            /\ DOMAIN after = DOMAIN before
            /\ \A n \in DOMAIN before \ {u.name} : after[n] = before[n]
            /\ u.found = (u.name \in DOMAIN before)
            /\ (u.found /\ u.action = "message_sent") =>
                  /\ after[u.name].conversation_count = before[u.name].conversation_count + 1
                  /\ after[u.name].response_rate = before[u.name].response_rate
            /\ (u.found /\ u.action = "response_sent") =>
                  after[u.name].conversation_count = before[u.name].conversation_count]_vars

(* a message_sent event for one of two registered names *)
C26_Witness ==
    /\ lastUpdate.found
    /\ lastUpdate.action = "message_sent"
    /\ Cardinality(DOMAIN agent_states[lastUpdate.agent]) >= 2
    /\ agent_states[lastUpdate.agent][lastUpdate.name].conversation_count
          = lastUpdate.old.conversation_count + 1

IsPrefix(s, t) == Len(s) <= Len(t) /\ SubSeq(t, 1, Len(s)) = s

(* C27: the conversation of a chat exists from the first message of the     *)
(* chat on; its messages only grow at the end; its participants are the     *)
(* senders of its messages.                                                 *)
C27_ConversationGrows ==
    /\ [](\A a \in Agents : \A c \in DOMAIN conversations[a] :
            /\ conversations[a][c].messages # <<>>
            /\ conversations[a][c].participants =
                  {m.sender : m \in Range(conversations[a][c].messages)})
    /\ [][\A a \in Agents : \A c \in DOMAIN conversations[a] :
            /\ c \in DOMAIN conversations'[a]
            /\ IsPrefix(conversations[a][c].messages, conversations'[a][c].messages)]_vars

(* a conversation that holds messages of two senders *)
C27_Witness ==
    \E a \in Agents : \E c \in DOMAIN conversations[a] :
        /\ Len(conversations[a][c].messages) >= 2
        /\ Cardinality(conversations[a][c].participants) >= 2

(* the agents whose should_start came out true *)
Believers == {a \in Agents : loopEval[a].evaluated /\ loopEval[a].should_start}

AllDecided == \A a \in Agents : loopEval[a].evaluated

(* C28: should_start is computed from the peers registered at that moment.  *)
(* When all loops have decided and not exactly one of them starts, some     *)
(* loop decided before all its peers were registered; both outcomes occur:  *)
(* no agent starts (C28_NoneStarts) and two agents start (C28_Witness).     *)
C28_RaceAtStartup ==
    /\ (AllDecided /\ Cardinality(Believers) # 1) => ~FullyRegistered
    /\ \A a \in Believers : loopEval[a].peers >= 1
    /\ \A a \in Agents : StartersBy(a) >= 1 => a \in Believers

(* two agents have each sent a starter *)
C28_Witness ==
    \E a \in Agents, b \in Agents :
        /\ a # b
        /\ StartersBy(a) = 1 /\ StartersBy(b) = 1
        /\ loopEval[a].peers < Cardinality(Agents) - 1 \/ loopEval[b].peers < Cardinality(Agents) - 1

(* all loops have decided and idle, all agents are registered everywhere by *)
(* now, and no starter was sent                                             *)
C28_NoneStarts ==
    /\ AllDecided
    /\ Believers = {}
    /\ \A a \in Agents : LoopIdle(a) /\ StartersBy(a) = 0
    /\ \A a \in Agents : Len(other_agents[a]) = Cardinality(Agents) - 1

(* the least name among the agents other than a *)
LeastOther(a) ==
    CHOOSE b \in Agents \ {a} : \A c \in Agents \ {a, b} : StrLess(Chars(b), Chars(c))

(* the replies in the group to a starter of agent a *)
StarterReplies(a) ==
    {i \in 1..Len(channel) :
        /\ channel[i].kind = "reply"
        /\ channel[i].sender = a
        /\ channel[i].content \in StarterTexts}

(* C30: every starter holds a topic keyword, so that every peer takes it    *)
(* for an initial message.  When the agents have registered one another     *)
(* completely and no completion or send fails, the starter of an agent is   *)
(* answered in the end by the least of the other agents, once, and by no    *)
(* other agent.                                                             *)
C30_StarterAnswered ==
    /\ [](\A x \in StarterTexts : IsInitialMessage(x))
    /\ [](\A a \in Agents :
            /\ Cardinality(StarterReplies(a)) <= 1
            /\ \A i \in StarterReplies(a) : channel[i].by = LeastOther(a))
    /\ (\E a \in Agents : StartersBy(a) >= 1) ~>
          (\A a \in Agents :
              StartersBy(a) >= 1 => \E i \in StarterReplies(a) : channel[i].by = LeastOther(a))

(* the starter of Alpha was answered by Beta, and every call has returned *)
C30_Witness ==
    /\ StartersBy("Alpha") = 1
    /\ \E i \in StarterReplies("Alpha") : channel[i].by = "Beta"
    /\ Quiescent
    /\ \A a \in Agents : LoopIdle(a)
====
